---- MODULE Spec2Model ----
(***************************************************************************)
(* Model of the FlowFi stream contract                                     *)
(* (contracts/stream_contract/src/lib.rs).                                 *)
(*                                                                         *)
(* The durable state is the persistent storage of the contract (one Stream *)
(* record per id, plus the instance entry StreamCounter) and the balances  *)
(* kept by the token contracts the streams refer to.  Every invocation of  *)
(* the contract is one action: the host runs an invocation as one          *)
(* transaction, and an invocation that traps (a failed require_auth, a     *)
(* failed token transfer) commits none of its writes and none of its       *)
(* events.                                                                 *)
(***************************************************************************)
EXTENDS Integers, Sequences, FiniteSets, TLC

\* ---------------------------------------------------------------- bounds
MaxStreams == 2
MaxTime == 1
MaxAmount == 2
MaxDuration == MaxAmount
InitBalance == MaxAmount
\* the integer widths, scaled: the largest i128 lies above what one minting
\* funds and below what two do, and the largest u64 is the last stream id
I128Max == 2 * MaxAmount - 1
U64Max == MaxStreams

\* ------------------------------------------------------------ the universe
Addrs == {"a1", "a2"}
\* the address the token admin has minted InitBalance to; the other address
\* and the contract start with a balance of 0
Funded == "a1"
ContractAddress == "contract"
Accounts == Addrs \cup {ContractAddress}
Tokens == {"t1"}
Amounts == -1 .. MaxAmount
Durations == 0 .. MaxDuration
StreamIds == 1 .. (MaxStreams + 1)

VARIABLES
    streams,    \* persistent storage: DataKey::Stream(id) -> Stream
    counter,    \* instance storage: DataKey::StreamCounter (0 when absent)
    balances,   \* the token contracts' ledgers: token -> account -> balance
    now,        \* env.ledger().timestamp()
    events,     \* the events published by the latest invocation
    call,       \* the latest invocation: operation, result, returned value
    frozen,     \* history: stream id -> what the stream had accrued in all
                \* when it was first cancelled (kept by SpecFrozen only)
    stack       \* the invocations in progress, innermost last (used by
                \* SpecSteps only; the other specifications run an
                \* invocation as one step)

vars == <<streams, counter, balances, now, events, call>>
aux == <<frozen, stack>>
allvars == <<streams, counter, balances, now, events, call, frozen, stack>>

\* ------------------------------------------------------------------ types
\* struct Stream
Stream(sender, recipient, token_address, rate, deposited_amount, withdrawn_amount, start_time, last_update_time, is_active) ==
    [sender |-> sender, recipient |-> recipient, token_address |-> token_address,
     rate_per_second |-> rate, deposited_amount |-> deposited_amount,
     withdrawn_amount |-> withdrawn_amount, start_time |-> start_time,
     last_update_time |-> last_update_time, is_active |-> is_active]

\* enum StreamError, and the result of a call that returns no error
StreamError == {"InvalidAmount", "StreamNotFound", "Unauthorized", "StreamInactive"}
Ok == "Ok"

StreamCreatedEvent(stream_id, sender, recipient, rate, token_address, start_time) ==
    [topic |-> "stream_created", stream_id |-> stream_id, sender |-> sender,
     recipient |-> recipient, rate |-> rate, token_address |-> token_address,
     start_time |-> start_time]

StreamCancelledEvent(stream_id, sender, recipient, amount_withdrawn) ==
    [topic |-> "stream_cancelled", stream_id |-> stream_id, sender |-> sender,
     recipient |-> recipient, amount_withdrawn |-> amount_withdrawn]

TokensWithdrawnEvent(stream_id, recipient, amount, timestamp) ==
    [topic |-> "tokens_withdrawn", stream_id |-> stream_id, recipient |-> recipient,
     amount |-> amount, timestamp |-> timestamp]

StreamToppedUpEvent(stream_id, sender, amount, new_deposited_amount) ==
    [topic |-> "stream_topped_up", stream_id |-> stream_id, sender |-> sender,
     amount |-> amount, new_deposited_amount |-> new_deposited_amount]

\* Option<Stream>::None
None == [is_none |-> TRUE]

\* ---------------------------------------------------------------- helpers
\* i128 division truncates toward zero
TruncDiv(a, b) == IF a >= 0 THEN a \div b ELSE -((-a) \div b)

\* token::Client::transfer traps on a negative amount and on an insufficient
\* balance of `from`
TransferOk(token_address, from, amount) ==
    amount >= 0 /\ balances[token_address][from] >= amount

\* the ledgers after token::Client::transfer(from, to, amount)
Transfer(token_address, from, to, amount) ==
    [balances EXCEPT ![token_address] =
        [acc \in Accounts |->
            (IF acc = to THEN amount ELSE 0) - (IF acc = from THEN amount ELSE 0)
            + balances[token_address][acc]]]

\* storage.get(&DataKey::Stream(stream_id))
get_stream(stream_id) ==
    IF stream_id \in DOMAIN streams THEN streams[stream_id] ELSE None

\* storage.set(&DataKey::Stream(stream_id), &stream)
SetStream(stream_id, stream) ==
    [id \in DOMAIN streams \cup {stream_id} |->
        IF id = stream_id THEN stream ELSE streams[id]]

\* the build's overflow checks: a `+` or `+=` whose result does not fit the
\* integer's width panics, and the host traps the invocation
overflow_checks == TRUE

\* what a `+` on u64 and on i128 leaves when it is not checked
wrapping_add_u64(a, b) ==
    IF a + b > U64Max THEN a + b - (U64Max + 1) ELSE a + b

wrapping_add_i128(a, b) ==
    IF a + b > I128Max THEN a + b - 2 * (I128Max + 1) ELSE a + b

\* get_next_stream_id: the id it returns and the value it stores in
\* StreamCounter (a missing counter reads as 0)
get_next_stream_id_unsaved ==
    [next_id |-> wrapping_add_u64(counter, 1), stored |-> counter]

get_next_stream_id ==
    LET next_id == wrapping_add_u64(counter, 1)
    IN  [next_id |-> next_id, stored |-> next_id]

\* a trapped invocation: the host rolls the transaction back, so nothing is
\* committed and no event is published; `why` is the host error
AuthError == "AuthError"
TransferError == "TransferError"
ArithmeticOverflow == "ArithmeticOverflow"
Traps == {AuthError, TransferError, ArithmeticOverflow}

Abort(op, why) ==
    /\ call' = [op |-> op, result |-> why]
    /\ events' = <<>>
    /\ UNCHANGED <<streams, counter, balances, now>>

\* ------------------------------------------------------------------- Init
Init ==
    /\ streams = <<>>
    /\ counter = 0
    /\ balances = [t \in Tokens |->
                    [acc \in Accounts |-> IF acc = Funded THEN InitBalance ELSE 0]]
    /\ now = 0
    /\ events = <<>>
    /\ call = [op |-> "deploy", result |-> Ok]
    /\ frozen = <<>>
    /\ stack = <<>>

\* ------------------------------------------------------------- operations
\* the rate create_stream derives from amount and duration
rate_rounded_up(amount, duration) ==
    IF duration = 0 THEN amount
    ELSE TruncDiv(amount + duration - 1, duration)

rate_per_second(amount, duration) ==
    IF duration = 0 THEN amount
    ELSE TruncDiv(amount, duration)

\* create_stream, were a failed transfer an error the handler returns after
\* get_next_stream_id has stored the counter
create_stream_keeps_counter(sender, recipient, token_address, amount, duration, auth) ==
    LET stream_id == get_next_stream_id.next_id
        start_time == now
        rate == rate_per_second(amount, duration)
        stream == Stream(sender, recipient, token_address, rate,
                         amount, 0, start_time, start_time, TRUE)
    IN  IF ~auth
        THEN Abort("create_stream", AuthError)
        ELSE IF overflow_checks /\ counter + 1 > U64Max
        THEN Abort("create_stream", ArithmeticOverflow)
        ELSE IF ~TransferOk(token_address, sender, amount)
        THEN /\ counter' = get_next_stream_id.stored
             /\ call' = [op |-> "create_stream", result |-> TransferError]
             /\ events' = <<>>
             /\ UNCHANGED <<streams, balances, now>>
        ELSE /\ counter' = get_next_stream_id.stored
             /\ balances' = Transfer(token_address, sender, ContractAddress, amount)
             /\ streams' = SetStream(stream_id, stream)
             /\ events' = <<StreamCreatedEvent(stream_id, sender, recipient, rate,
                                               token_address, start_time)>>
             /\ call' = [op |-> "create_stream", result |-> Ok, ret |-> stream_id]
             /\ UNCHANGED now

create_stream(sender, recipient, token_address, amount, duration, auth) ==
    LET stream_id == get_next_stream_id.next_id
        start_time == now
        rate == rate_per_second(amount, duration)
        stream == Stream(sender, recipient, token_address, rate,
                         amount, 0, start_time, start_time, TRUE)
    IN  IF ~auth
        THEN Abort("create_stream", AuthError)
        ELSE IF overflow_checks /\ counter + 1 > U64Max
        THEN Abort("create_stream", ArithmeticOverflow)
        ELSE IF ~TransferOk(token_address, sender, amount)
        THEN Abort("create_stream", TransferError)
        ELSE /\ counter' = get_next_stream_id.stored
             /\ balances' = Transfer(token_address, sender, ContractAddress, amount)
             /\ streams' = SetStream(stream_id, stream)
             /\ events' = <<StreamCreatedEvent(stream_id, sender, recipient, rate,
                                               token_address, start_time)>>
             /\ call' = [op |-> "create_stream", result |-> Ok, ret |-> stream_id]
             /\ UNCHANGED now

\* `repeat` in the record of a withdraw: the invocation before it was the
\* same successful withdraw at the same timestamp
withdraw_repeats(recipient, stream_id) ==
    /\ call.op = "withdraw"
    /\ call.result = Ok
    /\ Len(events) = 1
    /\ events[1].stream_id = stream_id
    /\ events[1].recipient = recipient
    /\ events[1].timestamp = now

\* a withdraw that pays the accrued amount and leaves last_update_time alone
withdraw_pays_again(recipient, stream_id, auth) ==
    IF ~auth
    THEN Abort("withdraw", AuthError)
    ELSE IF get_stream(stream_id) = None \/ get_stream(stream_id).recipient # recipient
    THEN /\ events' = <<>>
         /\ call' = [op |-> "withdraw", result |-> "StreamNotFound", repeat |-> FALSE]
         /\ UNCHANGED <<streams, counter, balances, now>>
    ELSE LET stream == get_stream(stream_id)
             accrued == stream.rate_per_second * (now - stream.last_update_time)
             left == stream.deposited_amount - stream.withdrawn_amount
             amount == IF accrued < left THEN accrued ELSE left
         IN  /\ balances' = Transfer(stream.token_address, ContractAddress,
                                     recipient, amount)
             /\ streams' = SetStream(stream_id,
                               [stream EXCEPT !.withdrawn_amount = @ + amount])
             /\ events' = <<TokensWithdrawnEvent(stream_id, recipient, amount, now)>>
             /\ call' = [op |-> "withdraw", result |-> Ok,
                         repeat |-> withdraw_repeats(recipient, stream_id)]
             /\ UNCHANGED <<counter, now>>

\* a withdraw that pays what has accrued since last_update_time, whether or
\* not the stream was cancelled
withdraw_ignores_cancel(recipient, stream_id, auth) ==
    IF ~auth
    THEN Abort("withdraw", AuthError)
    ELSE IF get_stream(stream_id) = None \/ get_stream(stream_id).recipient # recipient
    THEN /\ events' = <<>>
         /\ call' = [op |-> "withdraw", result |-> "StreamNotFound", repeat |-> FALSE]
         /\ UNCHANGED <<streams, counter, balances, now>>
    ELSE LET stream == get_stream(stream_id)
             accrued == stream.rate_per_second * (now - stream.last_update_time)
             left == stream.deposited_amount - stream.withdrawn_amount
             amount == IF accrued < left THEN accrued ELSE left
         IN  /\ balances' = Transfer(stream.token_address, ContractAddress,
                                     recipient, amount)
             /\ streams' = SetStream(stream_id,
                               [stream EXCEPT !.withdrawn_amount = @ + amount,
                                              !.last_update_time = now])
             /\ events' = <<TokensWithdrawnEvent(stream_id, recipient, amount, now)>>
             /\ call' = [op |-> "withdraw", result |-> Ok,
                         repeat |-> withdraw_repeats(recipient, stream_id)]
             /\ UNCHANGED <<counter, now>>

withdraw(recipient, stream_id, auth) ==
    LET amount == 0
        timestamp == now
    IN  IF ~auth
        THEN Abort("withdraw", AuthError)
        ELSE /\ events' = <<TokensWithdrawnEvent(stream_id, recipient, amount,
                                                 timestamp)>>
             /\ call' = [op |-> "withdraw", result |-> Ok,
                         repeat |-> withdraw_repeats(recipient, stream_id)]
             /\ UNCHANGED <<streams, counter, balances, now>>

\* a cancel_stream without sender.require_auth()
cancel_stream_unchecked(sender, stream_id, auth) ==
    IF get_stream(stream_id) = None \/ get_stream(stream_id).sender # sender
    THEN /\ events' = <<>>
         /\ call' = [op |-> "cancel_stream", result |-> Ok]
         /\ UNCHANGED <<streams, counter, balances, now>>
    ELSE LET stream == [get_stream(stream_id) EXCEPT !.is_active = FALSE]
         IN  /\ streams' = SetStream(stream_id, stream)
             /\ events' = <<StreamCancelledEvent(stream_id, sender,
                                                 stream.recipient,
                                                 stream.withdrawn_amount)>>
             /\ call' = [op |-> "cancel_stream", result |-> Ok]
             /\ UNCHANGED <<counter, balances, now>>

\* a cancel_stream that does not compare the record's sender with the caller
cancel_stream_by_anyone(sender, stream_id, auth) ==
    IF ~auth
    THEN Abort("cancel_stream", AuthError)
    ELSE IF get_stream(stream_id) = None
    THEN /\ events' = <<>>
         /\ call' = [op |-> "cancel_stream", result |-> Ok]
         /\ UNCHANGED <<streams, counter, balances, now>>
    ELSE LET stream == [get_stream(stream_id) EXCEPT !.is_active = FALSE]
         IN  /\ streams' = SetStream(stream_id, stream)
             /\ events' = <<StreamCancelledEvent(stream_id, sender,
                                                 stream.recipient,
                                                 stream.withdrawn_amount)>>
             /\ call' = [op |-> "cancel_stream", result |-> Ok]
             /\ UNCHANGED <<counter, balances, now>>

cancel_stream(sender, stream_id, auth) ==
    IF ~auth
    THEN Abort("cancel_stream", AuthError)
    ELSE IF get_stream(stream_id) = None \/ get_stream(stream_id).sender # sender
    THEN /\ events' = <<>>
         /\ call' = [op |-> "cancel_stream", result |-> Ok]
         /\ UNCHANGED <<streams, counter, balances, now>>
    ELSE LET stream == [get_stream(stream_id) EXCEPT !.is_active = FALSE]
         IN  /\ streams' = SetStream(stream_id, stream)
             /\ events' = <<StreamCancelledEvent(stream_id, sender,
                                                 stream.recipient,
                                                 stream.withdrawn_amount)>>
             /\ call' = [op |-> "cancel_stream", result |-> Ok]
             /\ UNCHANGED <<counter, balances, now>>

\* the checks of top_up_stream, in the order the code makes them
top_up_error_lookup_first(sender, stream_id, amount) ==
    IF get_stream(stream_id) = None THEN "StreamNotFound"
    ELSE IF amount <= 0 THEN "InvalidAmount"
    ELSE IF get_stream(stream_id).sender # sender THEN "Unauthorized"
    ELSE IF ~get_stream(stream_id).is_active THEN "StreamInactive"
    ELSE Ok

top_up_error_ignores_inactive(sender, stream_id, amount) ==
    IF amount <= 0 THEN "InvalidAmount"
    ELSE IF get_stream(stream_id) = None THEN "StreamNotFound"
    ELSE IF get_stream(stream_id).sender # sender THEN "Unauthorized"
    ELSE Ok

top_up_error(sender, stream_id, amount) ==
    IF amount <= 0 THEN "InvalidAmount"
    ELSE IF get_stream(stream_id) = None THEN "StreamNotFound"
    ELSE IF get_stream(stream_id).sender # sender THEN "Unauthorized"
    ELSE IF ~get_stream(stream_id).is_active THEN "StreamInactive"
    ELSE Ok

\* the record top_up_stream stores
topped_up_subtracts(stream, amount) ==
    [stream EXCEPT !.deposited_amount = @ - amount, !.last_update_time = now]

topped_up_keeps_time(stream, amount) ==
    [stream EXCEPT !.deposited_amount = wrapping_add_i128(@, amount)]

topped_up(stream, amount) ==
    [stream EXCEPT !.deposited_amount = wrapping_add_i128(@, amount), !.last_update_time = now]

\* top_up_stream, were its `+=` to wrap
top_up_stream_wrapping(sender, stream_id, amount, auth) ==
    LET err == top_up_error(sender, stream_id, amount)
    IN  IF ~auth
        THEN Abort("top_up_stream", AuthError)
        ELSE IF err # Ok
        THEN /\ events' = <<>>
             /\ call' = [op |-> "top_up_stream", result |-> err]
             /\ UNCHANGED <<streams, counter, balances, now>>
        ELSE IF ~TransferOk(get_stream(stream_id).token_address, sender, amount)
        THEN Abort("top_up_stream", TransferError)
        ELSE LET stream == topped_up(get_stream(stream_id), amount)
             IN  /\ balances' = Transfer(stream.token_address, sender,
                                         ContractAddress, amount)
                 /\ streams' = SetStream(stream_id, stream)
                 /\ events' = <<StreamToppedUpEvent(stream_id, sender, amount,
                                                    stream.deposited_amount)>>
                 /\ call' = [op |-> "top_up_stream", result |-> Ok]
                 /\ UNCHANGED <<counter, now>>

top_up_stream(sender, stream_id, amount, auth) ==
    LET err == top_up_error(sender, stream_id, amount)
    IN  IF ~auth
        THEN Abort("top_up_stream", AuthError)
        ELSE IF err # Ok
        THEN /\ events' = <<>>
             /\ call' = [op |-> "top_up_stream", result |-> err]
             /\ UNCHANGED <<streams, counter, balances, now>>
        ELSE IF ~TransferOk(get_stream(stream_id).token_address, sender, amount)
        THEN Abort("top_up_stream", TransferError)
        ELSE IF overflow_checks
                /\ get_stream(stream_id).deposited_amount + amount > I128Max
        THEN Abort("top_up_stream", ArithmeticOverflow)
        ELSE LET stream == topped_up(get_stream(stream_id), amount)
             IN  /\ balances' = Transfer(stream.token_address, sender,
                                         ContractAddress, amount)
                 /\ streams' = SetStream(stream_id, stream)
                 /\ events' = <<StreamToppedUpEvent(stream_id, sender, amount,
                                                    stream.deposited_amount)>>
                 /\ call' = [op |-> "top_up_stream", result |-> Ok]
                 /\ UNCHANGED <<counter, now>>

\* the read-only entry point get_stream
get_stream_call(stream_id) ==
    /\ call' = [op |-> "get_stream", result |-> Ok, ret |-> get_stream(stream_id)]
    /\ events' = <<>>
    /\ UNCHANGED <<streams, counter, balances, now>>

\* the ledger closes and the timestamp advances
Advance ==
    /\ now < MaxTime
    /\ now' = now + 1
    /\ UNCHANGED <<streams, counter, balances, events, call>>

\* ---------------------------------------------------------- invocations
CreateStreamCall ==
    /\ counter < MaxStreams
    /\ \E sender \in Addrs, recipient \in Addrs, token_address \in Tokens,
          amount \in Amounts, duration \in Durations, auth \in BOOLEAN :
          create_stream(sender, recipient, token_address, amount, duration, auth)

WithdrawCall ==
    \E recipient \in Addrs, stream_id \in StreamIds, auth \in BOOLEAN :
        withdraw(recipient, stream_id, auth)

CancelStreamCall ==
    \E sender \in Addrs, stream_id \in StreamIds, auth \in BOOLEAN :
        cancel_stream(sender, stream_id, auth)

TopUpStreamCall ==
    \E sender \in Addrs, stream_id \in StreamIds, amount \in Amounts,
       auth \in BOOLEAN :
        top_up_stream(sender, stream_id, amount, auth)

GetStreamCall ==
    \E stream_id \in StreamIds : get_stream_call(stream_id)

\* ------------------------------------------------------------------- Next
Tick == Advance /\ UNCHANGED aux

CreateStream == CreateStreamCall /\ UNCHANGED aux

Withdraw == WithdrawCall /\ UNCHANGED aux

CancelStream == CancelStreamCall /\ UNCHANGED aux

TopUpStream == TopUpStreamCall /\ UNCHANGED aux

GetStream == GetStreamCall /\ UNCHANGED aux

Next == CreateStream \/ Withdraw \/ CancelStream \/ TopUpStream \/ GetStream \/ Tick

Spec == Init /\ [][Next]_vars

\* --------------------------------------------- Spec with the history `frozen`
Min(a, b) == IF a < b THEN a ELSE b

\* the amount the specification makes claimable on a stream at time `at`
Claimable(stream, at) ==
    IF at <= stream.last_update_time THEN 0
    ELSE Min(stream.rate_per_second * (at - stream.last_update_time),
             stream.deposited_amount - stream.withdrawn_amount)

\* a step records, for each stream it cancels for the first time, what the
\* recipient had been paid plus what had accrued and was unclaimed then
RecordFrozen ==
    frozen' = [id \in {i \in DOMAIN streams' : ~streams'[i].is_active} |->
                 IF id \in DOMAIN frozen THEN frozen[id]
                 ELSE streams[id].withdrawn_amount + Claimable(streams[id], now)]

FrozenTick == Advance /\ RecordFrozen /\ UNCHANGED stack

FrozenCreateStream == CreateStreamCall /\ RecordFrozen /\ UNCHANGED stack

FrozenWithdraw == WithdrawCall /\ RecordFrozen /\ UNCHANGED stack

FrozenCancelStream == CancelStreamCall /\ RecordFrozen /\ UNCHANGED stack

FrozenTopUpStream == TopUpStreamCall /\ RecordFrozen /\ UNCHANGED stack

FrozenGetStream == GetStreamCall /\ RecordFrozen /\ UNCHANGED stack

NextFrozen ==
    \/ FrozenCreateStream \/ FrozenWithdraw \/ FrozenCancelStream
    \/ FrozenTopUpStream \/ FrozenGetStream \/ FrozenTick

SpecFrozen == Init /\ [][NextFrozen]_allvars

\* ------------------------------- Spec with deposits and ids up to the widths
\* the token admin mints to the funded address again once it has spent all
MaxSupply == 2 * InitBalance

Mint ==
    /\ \E t \in Tokens :
         /\ balances[t][Funded] = 0
         /\ balances[t][Funded] + balances[t][ContractAddress] + InitBalance
              <= MaxSupply
         /\ balances' = [balances EXCEPT ![t][Funded] = @ + InitBalance]
    /\ UNCHANGED <<streams, counter, now, events, call, frozen, stack>>

\* create_stream at any value of the counter, the last one included
OverflowCreateStream ==
    /\ \E sender \in Addrs, recipient \in Addrs, token_address \in Tokens,
          amount \in Amounts, duration \in Durations, auth \in BOOLEAN :
          create_stream(sender, recipient, token_address, amount, duration, auth)
    /\ UNCHANGED aux

\* the invocations that write an amount, the counter or is_active; the clock
\* stands still
NextOverflow == OverflowCreateStream \/ CancelStream \/ TopUpStream \/ Mint

SpecOverflow == Init /\ [][NextOverflow]_allvars

\* -------------------------------------- Spec of the invocations step by step
\* An invocation runs statement by statement in a frame of `stack`; the token
\* contract an invocation calls may call back into this contract before the
\* transfer returns, up to MaxDepth frames.  A trap in any frame rolls
\* the whole transaction back to `saved`.
MaxDepth == 2
StepRecipient == "a2"

Frame(op, sender, recipient, token_address, amount, duration, stream_id) ==
    [op |-> op, pc |-> "auth", sender |-> sender, recipient |-> recipient,
     token_address |-> token_address, amount |-> amount, duration |-> duration,
     stream_id |-> stream_id, stream |-> None, done |-> <<>>, called |-> FALSE,
     saved |-> None]

\* the invocations a caller can make, with their arguments
CreateFrames ==
    {Frame("create_stream", sender, StepRecipient, token_address, amount, duration, 0) :
        sender \in Addrs, token_address \in Tokens, amount \in Amounts,
        duration \in {0, MaxDuration}}

TopUpFrames ==
    {Frame("top_up_stream", sender, sender, "none", amount, 0, stream_id) :
        sender \in Addrs, amount \in Amounts, stream_id \in 1 .. MaxStreams}

WithdrawFrames ==
    {Frame("withdraw", recipient, recipient, "none", 0, 0, stream_id) :
        recipient \in {StepRecipient}, stream_id \in 1 .. MaxStreams}

Top == stack[Len(stack)]

SetTop(frame) == [stack EXCEPT ![Len(stack)] = frame]

\* the effect `what` is appended to the frame's log and the frame moves to pc
Done(frame, what, pc) == [frame EXCEPT !.done = Append(@, what), !.pc = pc]

\* the top frame returns `result`; the outermost frame ends the transaction
Return(result) ==
    /\ stack' = SubSeq(stack, 1, Len(stack) - 1)
    /\ call' = IF Len(stack) = 1 THEN [op |-> Top.op, result |-> result] ELSE call

\* the top frame traps: the host unwinds every frame and rolls back
Trap(why) ==
    /\ streams' = stack[1].saved.streams
    /\ counter' = stack[1].saved.counter
    /\ balances' = stack[1].saved.balances
    /\ events' = <<>>
    /\ call' = [op |-> stack[1].op, result |-> why]
    /\ stack' = <<>>
    /\ UNCHANGED <<now, frozen>>

\* a transaction invokes the contract
StepBegin ==
    /\ stack = <<>>
    /\ \E frame \in CreateFrames \cup TopUpFrames \cup WithdrawFrames :
         stack' = <<[frame EXCEPT !.saved = [streams |-> streams,
                                            counter |-> counter,
                                            balances |-> balances]]>>
    /\ events' = <<>>
    /\ UNCHANGED <<streams, counter, balances, now, call, frozen>>

\* the token contract, called by the top frame's transfer, calls back into
\* the contract before it moves the tokens
StepReenter ==
    /\ stack # <<>> /\ Len(stack) < MaxDepth
    /\ Top.pc = "transfer" /\ ~Top.called
    /\ \E frame \in CreateFrames \cup TopUpFrames :
         stack' = Append(SetTop([Top EXCEPT !.called = TRUE]), frame)
    /\ UNCHANGED <<streams, counter, balances, now, events, call, frozen>>

\* sender.require_auth() / recipient.require_auth()
StepRequireAuth ==
    /\ stack # <<>> /\ Top.pc = "auth"
    /\ \E auth \in BOOLEAN :
         IF ~auth THEN Trap(AuthError)
         ELSE /\ stack' = SetTop([Top EXCEPT !.pc =
                              CASE Top.op = "create_stream" -> "next_id"
                                [] Top.op = "top_up_stream" -> "check"
                                [] OTHER -> "publish"])
              /\ UNCHANGED <<streams, counter, balances, now, events, call, frozen>>

\* create_stream: let stream_id = Self::get_next_stream_id(&env)
StepNextStreamId ==
    /\ stack # <<>> /\ Top.pc = "next_id"
    /\ IF overflow_checks /\ counter + 1 > U64Max
       THEN Trap(ArithmeticOverflow)
       ELSE /\ counter' = get_next_stream_id.stored
            /\ stack' = SetTop(Done([Top EXCEPT !.stream_id = get_next_stream_id.next_id],
                                    "write_counter", "transfer"))
            /\ UNCHANGED <<streams, balances, now, events, call, frozen>>

\* top_up_stream: the checks, and the read of the record into `stream`
StepCheck ==
    /\ stack # <<>> /\ Top.pc = "check"
    /\ LET err == top_up_error(Top.sender, Top.stream_id, Top.amount)
       IN  IF err # Ok
           THEN /\ Return(err)
                /\ UNCHANGED <<streams, counter, balances, now, events, frozen>>
           ELSE /\ stack' = SetTop([Top EXCEPT !.stream = get_stream(Top.stream_id),
                                               !.pc = "transfer"])
                /\ UNCHANGED <<streams, counter, balances, now, events, call, frozen>>

\* token_client.transfer(&sender, &contract_address, &amount)
StepTransfer ==
    /\ stack # <<>> /\ Top.pc = "transfer"
    /\ LET token_address == IF Top.op = "create_stream" THEN Top.token_address
                            ELSE Top.stream.token_address
       IN  IF ~TransferOk(token_address, Top.sender, Top.amount)
           THEN Trap(TransferError)
           ELSE /\ balances' = Transfer(token_address, Top.sender,
                                        ContractAddress, Top.amount)
                /\ stack' = SetTop(Done(Top, "transfer", "store"))
                /\ UNCHANGED <<streams, counter, now, events, call, frozen>>

\* the record is built from the frame's locals and stored
StepStore ==
    /\ stack # <<>> /\ Top.pc = "store"
    /\ IF Top.op = "create_stream"
       THEN /\ streams' = SetStream(Top.stream_id,
                              Stream(Top.sender, Top.recipient, Top.token_address,
                                     rate_per_second(Top.amount, Top.duration),
                                     Top.amount, 0, now, now, TRUE))
            /\ stack' = SetTop(Done(Top, "write_stream", "publish"))
            /\ UNCHANGED <<counter, balances, now, events, call, frozen>>
       ELSE IF overflow_checks /\ Top.stream.deposited_amount + Top.amount > I128Max
       THEN Trap(ArithmeticOverflow)
       ELSE /\ streams' = SetStream(Top.stream_id, topped_up(Top.stream, Top.amount))
            /\ stack' = SetTop(Done([Top EXCEPT !.stream = topped_up(Top.stream, Top.amount)],
                                    "write_stream", "publish"))
            /\ UNCHANGED <<counter, balances, now, events, call, frozen>>

\* the event is published and the invocation returns
StepPublish ==
    /\ stack # <<>> /\ Top.pc = "publish"
    /\ events' = Append(events,
          CASE Top.op = "create_stream" ->
                 StreamCreatedEvent(Top.stream_id, Top.sender, Top.recipient,
                                    rate_per_second(Top.amount, Top.duration),
                                    Top.token_address, now)
            [] Top.op = "top_up_stream" ->
                 StreamToppedUpEvent(Top.stream_id, Top.sender, Top.amount,
                                     Top.stream.deposited_amount)
            [] OTHER ->
                 TokensWithdrawnEvent(Top.stream_id, Top.recipient, 0, now))
    /\ Return(Ok)
    /\ UNCHANGED <<streams, counter, balances, now, frozen>>

NextSteps ==
    \/ StepBegin \/ StepReenter \/ StepRequireAuth \/ StepNextStreamId
    \/ StepCheck \/ StepTransfer \/ StepStore \/ StepPublish

SpecSteps == Init /\ [][NextSteps]_allvars

\* ------------------------------------------- Spec with a fair clock and payee
\* the recipient of stream `id` withdraws from it, authorized
RecipientWithdraws(id) ==
    /\ id \in DOMAIN streams
    /\ withdraw(streams[id].recipient, id, TRUE)
    /\ UNCHANGED aux

\* the clock keeps advancing up to MaxTime, and every recipient keeps
\* calling withdraw
SpecFair ==
    /\ Init /\ [][Next]_allvars
    /\ WF_allvars(Tick)
    /\ \A id \in StreamIds : WF_allvars(RecipientWithdraws(id))

\* ============================================================== properties
DurableUnchanged == UNCHANGED <<streams, counter, balances>>

\* the accounts of token t other than those in `moved` keep their balance
OtherBalancesUnchanged(t, moved) ==
    /\ \A acc \in Accounts \ moved : balances'[t][acc] = balances[t][acc]
    /\ \A u \in Tokens \ {t} : balances'[u] = balances[u]

\* C1: after any sequence of create_stream, top_up_stream, withdraw and
\* cancel_stream calls at non-decreasing clock values, every stored stream
\* has 0 <= withdrawn_amount <= deposited_amount.
C1_WithdrawnWithinDeposit ==
    \A id \in DOMAIN streams :
        /\ 0 <= streams[id].withdrawn_amount
        /\ streams[id].withdrawn_amount <= streams[id].deposited_amount

\* a stream that was topped up, then cancelled, and on which its recipient
\* then called withdraw after the clock had advanced
C1_Witness ==
    /\ call.op = "withdraw" /\ call.result = Ok
    /\ \E id \in DOMAIN streams :
        /\ events[1].stream_id = id
        /\ events[1].recipient = streams[id].recipient
        /\ ~streams[id].is_active
        /\ streams[id].last_update_time > streams[id].start_time
        /\ streams[id].deposited_amount > streams[id].rate_per_second
        /\ streams[id].rate_per_second > 0

\* C2: a withdraw by the recipient of an active stream whose claimable
\* amount min(rate_per_second * (now - last_update_time), deposited_amount -
\* withdrawn_amount) is positive moves exactly that amount from escrow to the
\* recipient, adds it to withdrawn_amount, sets last_update_time to now and
\* publishes one TokensWithdrawn event carrying that amount.
C2_WithdrawPaysClaimable ==
    [][(call'.op = "withdraw") =>
       \A recipient \in Addrs, id \in StreamIds :
        ( /\ id \in DOMAIN streams
          /\ streams[id].is_active
          /\ streams[id].recipient = recipient
          /\ Claimable(streams[id], now) > 0
          /\ withdraw(recipient, id, TRUE) )
        => LET stream == streams[id]
               claimable == Claimable(stream, now)
           IN  /\ call'.result = Ok
               /\ balances'[stream.token_address][ContractAddress]
                    = balances[stream.token_address][ContractAddress] - claimable
               /\ balances'[stream.token_address][recipient]
                    = balances[stream.token_address][recipient] + claimable
               /\ streams'[id].withdrawn_amount = stream.withdrawn_amount + claimable
               /\ streams'[id].last_update_time = now
               /\ events' = <<TokensWithdrawnEvent(id, recipient, claimable, now)>>
      ]_vars

\* C3: after a successful create_stream(sender, recipient, token, amount,
\* duration) at time now, get_stream of the new id returns a record with the
\* given sender, recipient and token, deposited_amount = amount,
\* withdrawn_amount = 0, is_active = true, start_time = last_update_time = now,
\* and rate_per_second = amount / duration (truncated) when duration > 0 and
\* = amount when duration = 0.
C3_CreatedRecord ==
    [][(call'.op = "create_stream" /\ call'.result = Ok) =>
       \A sender \in Addrs, recipient \in Addrs, token \in Tokens,
          amount \in Amounts, duration \in Durations :
        create_stream(sender, recipient, token, amount, duration, TRUE)
        => /\ call'.ret \in DOMAIN streams'
           /\ streams'[call'.ret] =
                [sender |-> sender, recipient |-> recipient,
                 token_address |-> token,
                 rate_per_second |-> IF duration > 0
                                     THEN (CHOOSE q \in 0 .. amount :
                                             /\ q * duration <= amount
                                             /\ amount < (q + 1) * duration)
                                     ELSE amount,
                 deposited_amount |-> amount, withdrawn_amount |-> 0,
                 start_time |-> now, last_update_time |-> now,
                 is_active |-> TRUE]
      ]_vars

\* a stream was just created whose amount is not a multiple of its duration
C3_Witness ==
    /\ call.op = "create_stream" /\ call.result = Ok
    /\ events[1].topic = "stream_created"
    /\ streams[call.ret].deposited_amount = 1
    /\ streams[call.ret].rate_per_second = 0
    /\ streams[call.ret].start_time = now
    /\ now > 0

\* the stored records are those of the ids issued so far
C4_IdsDense == DOMAIN streams = 1 .. counter

\* a step issues an id only in a successful create_stream, and then the next one
C4_IdStep ==
    IF call'.op = "create_stream" /\ call'.result = Ok /\ CreateStream
    THEN /\ call'.ret = counter + 1
         /\ call'.ret \notin DOMAIN streams
         /\ counter' = call'.ret
         /\ DOMAIN streams' = DOMAIN streams \cup {call'.ret}
         /\ \A id \in DOMAIN streams : streams'[id] = streams[id]
    ELSE /\ counter' = counter
         /\ DOMAIN streams' = DOMAIN streams

\* C4: the ids successful create_stream calls return are 1, 2, 3, ... in call
\* order: the first is 1, each later one is the previous one plus one, no id
\* is returned twice or given to two records, whatever other operations are
\* interleaved.
C4_SequentialIds == []C4_IdsDense /\ [][C4_IdStep]_vars

\* the second stream was created after a top-up, a withdraw or a cancel had
\* touched the first one
C4_Witness ==
    /\ call.op = "create_stream" /\ call.result = Ok /\ call.ret = 2
    /\ counter = 2
    /\ (~streams[1].is_active \/ streams[1].last_update_time > streams[1].start_time)

\* C5: create_stream is all-or-nothing with respect to its transfer: a
\* successful call takes exactly amount from the sender, gives exactly amount
\* to the contract and stores the record; a call whose transfer fails for an
\* insufficient sender balance leaves no record, leaves the counter and all
\* balances unchanged and publishes no event.
C5_CreateAllOrNothing ==
    [][(call'.op = "create_stream") =>
       \A sender \in Addrs, recipient \in Addrs, token \in Tokens,
          amount \in Amounts, duration \in Durations :
        create_stream(sender, recipient, token, amount, duration, TRUE)
        => IF call'.result = Ok
           THEN /\ balances[token][sender] >= amount
                /\ balances'[token][sender] = balances[token][sender] - amount
                /\ balances'[token][ContractAddress]
                     = balances[token][ContractAddress] + amount
                /\ OtherBalancesUnchanged(token, {sender, ContractAddress})
                /\ call'.ret \in DOMAIN streams' \ DOMAIN streams
           ELSE /\ call'.result = TransferError
                /\ DurableUnchanged
                /\ events' = <<>>
      ]_vars

\* a create_stream failed in its transfer while the contract already held
\* streams and escrow
C5_Witness ==
    /\ call.op = "create_stream" /\ call.result = TransferError
    /\ counter = 1
    /\ \E t \in Tokens : balances[t][ContractAddress] > 0
    /\ \E t \in Tokens, a \in Addrs : balances[t][a] = 0

\* the first error that applies to a top-up, in the documented order
C6_ExpectedError(sender, id, amount) ==
    CASE amount <= 0 -> "InvalidAmount"
      [] amount > 0 /\ id \notin DOMAIN streams -> "StreamNotFound"
      [] amount > 0 /\ id \in DOMAIN streams /\ streams[id].sender # sender
            -> "Unauthorized"
      [] amount > 0 /\ id \in DOMAIN streams /\ streams[id].sender = sender
            /\ ~streams[id].is_active -> "StreamInactive"
      [] OTHER -> Ok

\* C6: top_up_stream returns the first error that applies, in the order
\* InvalidAmount (amount <= 0, even when no stream exists at id),
\* StreamNotFound (no record at id), Unauthorized (the record's sender is not
\* the caller), StreamInactive (the record is not active); in each of these
\* cases the records, the counter and the balances are unchanged and no event
\* is published.
C6_TopUpErrorOrder ==
    [][(call'.op = "top_up_stream") =>
       \A sender \in Addrs, id \in StreamIds, amount \in Amounts :
        top_up_stream(sender, id, amount, TRUE)
        => IF C6_ExpectedError(sender, id, amount) # Ok
           THEN /\ call'.result = C6_ExpectedError(sender, id, amount)
                /\ DurableUnchanged
                /\ events' = <<>>
           ELSE call'.result \notin StreamError
      ]_vars

\* a top-up was refused with StreamInactive while another stream is active
C6_Witness ==
    /\ call.op = "top_up_stream" /\ call.result = "StreamInactive"
    /\ events = <<>>
    /\ \E id \in DOMAIN streams : ~streams[id].is_active
    /\ \E id \in DOMAIN streams : streams[id].is_active

\* the fields of a stream a top-up leaves alone
C7_KeptFields ==
    {"sender", "recipient", "token_address", "rate_per_second",
     "withdrawn_amount", "start_time", "is_active"}

\* C7: a successful top_up_stream(sender, id, amount) at time now moves
\* exactly amount from the sender to escrow, adds exactly amount to the
\* stream's deposited_amount, sets last_update_time to now, publishes one
\* StreamToppedUp event whose new_deposited_amount is the stored
\* deposited_amount, and leaves the stream's other fields, every other stream
\* and the counter unchanged.
C7_TopUpEffect ==
    [][(call'.op = "top_up_stream" /\ call'.result = Ok) =>
       \A sender \in Addrs, id \in StreamIds, amount \in Amounts :
        top_up_stream(sender, id, amount, TRUE)
        => LET token == streams[id].token_address
           IN  /\ balances'[token][sender] = balances[token][sender] - amount
               /\ balances'[token][ContractAddress]
                    = balances[token][ContractAddress] + amount
               /\ OtherBalancesUnchanged(token, {sender, ContractAddress})
               /\ DOMAIN streams' = DOMAIN streams
               /\ streams'[id].deposited_amount
                    = streams[id].deposited_amount + amount
               /\ streams'[id].last_update_time = now
               /\ \A f \in C7_KeptFields : streams'[id][f] = streams[id][f]
               /\ \A other \in DOMAIN streams \ {id} :
                    streams'[other] = streams[other]
               /\ events' = <<StreamToppedUpEvent(id, sender, amount,
                                                  streams'[id].deposited_amount)>>
               /\ counter' = counter
      ]_vars

\* a stream was topped up after the clock had advanced, next to another stream
C7_Witness ==
    /\ call.op = "top_up_stream" /\ call.result = Ok
    /\ counter = 2
    /\ events[1].topic = "stream_topped_up"
    /\ LET id == events[1].stream_id
       IN  /\ streams[id].last_update_time = now
           /\ streams[id].start_time < now
           /\ streams[id].deposited_amount = events[1].new_deposited_amount
           /\ streams[id].deposited_amount > events[1].amount

\* C8: withdraw(recipient, id) fails with StreamNotFound when no record
\* exists at id and with Unauthorized when the record's recipient is not the
\* caller; in both cases nothing changes, no tokens move and no
\* TokensWithdrawn event is published.
C8_WithdrawErrors ==
    [][(call'.op = "withdraw") =>
       \A recipient \in Addrs, id \in StreamIds :
        ( /\ withdraw(recipient, id, TRUE)
          /\ (id \notin DOMAIN streams \/ streams[id].recipient # recipient) )
        => /\ call'.result = (IF id \notin DOMAIN streams
                              THEN "StreamNotFound" ELSE "Unauthorized")
           /\ DurableUnchanged
           /\ events' = <<>>
      ]_vars

\* C9: withdraw is idempotent within one timestamp: a second withdraw by the
\* recipient at the same clock value, with no top-up in between, succeeds,
\* transfers 0 tokens and leaves the record and all balances as the first one
\* left them; more generally a withdraw whose claimable amount is 0 succeeds
\* without changing anything.
C9_WithdrawIdempotent ==
    [][(call'.op = "withdraw") =>
       \A recipient \in Addrs, id \in StreamIds :
        ( /\ id \in DOMAIN streams
          /\ streams[id].recipient = recipient
          /\ withdraw(recipient, id, TRUE)
          /\ (call'.repeat \/ Claimable(streams[id], now) = 0) )
        => /\ call'.result = Ok
           /\ DurableUnchanged
           /\ \A i \in 1 .. Len(events') : events'[i].amount = 0
      ]_vars

\* the recipient of an active, funded stream has called withdraw twice at
\* one timestamp, after the clock had advanced past last_update_time
C9_Witness ==
    /\ call.op = "withdraw" /\ call.result = Ok /\ call.repeat
    /\ LET id == events[1].stream_id
       IN  /\ id \in DOMAIN streams
           /\ streams[id].recipient = events[1].recipient
           /\ streams[id].is_active
           /\ streams[id].rate_per_second > 0
           /\ streams[id].last_update_time < now

\* C10: cancel_stream(sender, id) does nothing (no write, no event, no error)
\* when no record exists at id or the record's sender is not the caller;
\* otherwise it sets is_active to false, publishes one StreamCancelled event
\* carrying the record's recipient and withdrawn_amount, keeps the record
\* retrievable, moves no tokens and leaves every other field and every other
\* stream unchanged.
C10_CancelEffect ==
    [][(call'.op = "cancel_stream") =>
       \A sender \in Addrs, id \in StreamIds :
        cancel_stream(sender, id, TRUE)
        => /\ call'.result = Ok
           /\ balances' = balances
           /\ counter' = counter
           /\ IF id \notin DOMAIN streams \/ streams[id].sender # sender
              THEN streams' = streams /\ events' = <<>>
              ELSE /\ DOMAIN streams' = DOMAIN streams
                   /\ streams'[id].is_active = FALSE
                   /\ \A f \in DOMAIN streams[id] \ {"is_active"} :
                        streams'[id][f] = streams[id][f]
                   /\ \A other \in DOMAIN streams \ {id} :
                        streams'[other] = streams[other]
                   /\ events' = <<StreamCancelledEvent(id, sender,
                                      streams[id].recipient,
                                      streams[id].withdrawn_amount)>>
      ]_vars

\* a funded stream was cancelled by its sender while another stream stays
\* active
C10_Witness ==
    /\ call.op = "cancel_stream" /\ call.result = Ok
    /\ Len(events) = 1
    /\ events[1].topic = "stream_cancelled"
    /\ LET id == events[1].stream_id
       IN  /\ ~streams[id].is_active
           /\ streams[id].deposited_amount > 0
           /\ streams[id].sender = events[1].sender
           /\ \E other \in DOMAIN streams \ {id} : streams[other].is_active

\* C11: cancellation is terminal: a stream whose is_active is false never
\* becomes active again, every later top_up_stream on it by its sender with
\* amount > 0 fails with StreamInactive, and its deposited_amount never
\* changes again.
C11_CancelTerminal ==
    [][ /\ \A id \in DOMAIN streams :
            ~streams[id].is_active
            => /\ id \in DOMAIN streams'
               /\ ~streams'[id].is_active
               /\ streams'[id].deposited_amount = streams[id].deposited_amount
        /\ (call'.op = "top_up_stream") =>
             \A id \in DOMAIN streams, amount \in Amounts :
                ( /\ ~streams[id].is_active
                  /\ amount > 0
                  /\ top_up_stream(streams[id].sender, id, amount, TRUE) )
                => call'.result = "StreamInactive"
      ]_vars

\* every stream is cancelled, the clock has advanced since, and a top-up of
\* one of them has just been refused
C11_Witness ==
    /\ call.op = "top_up_stream" /\ call.result = "StreamInactive"
    /\ counter = MaxStreams
    /\ \A id \in DOMAIN streams : ~streams[id].is_active
    /\ now > 0
    /\ \E id \in DOMAIN streams : streams[id].deposited_amount > 0

\* C12: accrual is frozen at cancellation: after a stream was cancelled at
\* time tc, the total paid to the recipient (withdrawn_amount) never exceeds
\* what had accrued up to tc, that is withdrawn_amount at tc plus
\* min(rate_per_second * (tc - last_update_time at tc), deposited_amount -
\* withdrawn_amount at tc), however far the clock advances before a withdraw.
C12_FrozenAtCancel ==
    \A id \in DOMAIN frozen : streams[id].withdrawn_amount <= frozen[id]

\* a funded stream with a positive rate was cancelled with nothing accrued,
\* the clock advanced, and its recipient then called withdraw
C12_Witness ==
    /\ call.op = "withdraw" /\ call.result = Ok
    /\ \E id \in DOMAIN frozen :
        /\ events[1].stream_id = id
        /\ events[1].recipient = streams[id].recipient
        /\ frozen[id] = 0
        /\ streams[id].rate_per_second > 0
        /\ streams[id].deposited_amount > 0
        /\ streams[id].last_update_time < now

\* C13: create_stream creates a stream only when amount > 0: a call with
\* amount <= 0 (amount = 0 included) stores no record, issues no id and
\* publishes no StreamCreated event, so every stored stream has
\* deposited_amount > 0.
C13_CreateNeedsPositiveAmount ==
    [][ /\ \A id \in DOMAIN streams' : streams'[id].deposited_amount > 0
        /\ (call'.op = "create_stream") =>
             \A sender \in Addrs, recipient \in Addrs, token \in Tokens,
                amount \in Amounts, duration \in Durations :
                (amount <= 0
                    /\ create_stream(sender, recipient, token, amount, duration, TRUE))
                => /\ streams' = streams
                   /\ counter' = counter
                   /\ events' = <<>>
      ]_vars

\* the authorized calls that may change stream id: those of its sender
C14_BySender(id) ==
    \/ /\ call'.op = "top_up_stream"
       /\ \E amount \in Amounts :
            top_up_stream(streams[id].sender, id, amount, TRUE)
    \/ /\ call'.op = "cancel_stream"
       /\ cancel_stream(streams[id].sender, id, TRUE)

\* the authorized calls that may take tokens of token t out of escrow: a
\* withdraw of the recipient of one of its streams
C14_ByRecipient(t) ==
    /\ call'.op = "withdraw"
    /\ \E id \in DOMAIN streams :
        /\ streams[id].token_address = t
        /\ withdraw(streams[id].recipient, id, TRUE)

\* an invocation whose require_auth fails changes nothing
C14_Refused ==
    /\ call'.result = AuthError
    /\ DurableUnchanged
    /\ events' = <<>>

\* C14: every mutating operation checks the authorization of its principal
\* argument before it touches state: a call whose check fails changes no
\* record, counter or balance and publishes no event; so a stream's
\* deposited_amount and is_active change only in calls authorized by its own
\* sender, and tokens leave escrow only in calls authorized by the recipient
\* of a stream.
C14_AuthorizationFirst ==
    [][ /\ (call'.op = "create_stream") =>
             \A sender \in Addrs, recipient \in Addrs, token \in Tokens,
                amount \in Amounts, duration \in Durations :
                create_stream(sender, recipient, token, amount, duration, FALSE)
                => C14_Refused
        /\ (call'.op = "top_up_stream") =>
             \A sender \in Addrs, id \in StreamIds, amount \in Amounts :
                top_up_stream(sender, id, amount, FALSE) => C14_Refused
        /\ (call'.op = "withdraw") =>
             \A recipient \in Addrs, id \in StreamIds :
                withdraw(recipient, id, FALSE) => C14_Refused
        /\ (call'.op = "cancel_stream") =>
             \A sender \in Addrs, id \in StreamIds :
                cancel_stream(sender, id, FALSE) => C14_Refused
        /\ \A id \in DOMAIN streams :
            ( \/ streams'[id].deposited_amount # streams[id].deposited_amount
              \/ streams'[id].is_active # streams[id].is_active )
            => C14_BySender(id)
        /\ \A t \in Tokens :
            balances'[t][ContractAddress] < balances[t][ContractAddress]
            => C14_ByRecipient(t)
      ]_vars

\* a cancel_stream without authorization was refused while an active, funded
\* stream and a second stream exist
C14_Witness ==
    /\ call.op = "cancel_stream" /\ call.result = AuthError
    /\ events = <<>>
    /\ counter = 2
    /\ \E id \in DOMAIN streams :
        streams[id].is_active /\ streams[id].deposited_amount > 0

C16_ChecksTransferWrite ==
    \A d \in 1 .. Len(stack) :
        \A i \in 1 .. Len(stack[d].done) :
            /\ stack[d].done[i] \in {"write_counter", "write_stream"}
                => \E j \in 1 .. (i - 1) : stack[d].done[j] = "transfer"
            /\ stack[d].done[i] = "write_stream" => i = Len(stack[d].done)

\* the escrow the streams of token t account for
RECURSIVE C17_Owed(_, _)
C17_Owed(t, ids) ==
    IF ids = {} THEN 0
    ELSE LET id == CHOOSE x \in ids : TRUE
         IN  (IF streams[id].token_address = t
              THEN streams[id].deposited_amount - streams[id].withdrawn_amount
              ELSE 0) + C17_Owed(t, ids \ {id})

\* C17: escrow conservation: after any sequence of serialized operations
\* (tokens reaching or leaving the contract through them only), the
\* contract's balance of each token is the sum over the stored streams of
\* that token of deposited_amount - withdrawn_amount.
C17_EscrowConserved ==
    \A t \in Tokens : balances[t][ContractAddress] = C17_Owed(t, DOMAIN streams)

\* the whole supply is in escrow, for two streams of which one was topped up
\* after the clock had advanced
C17_Witness ==
    /\ counter = 2
    /\ \E t \in Tokens : balances[t][ContractAddress] = InitBalance
    /\ \A id \in DOMAIN streams : streams[id].deposited_amount > 0
    /\ \E id \in DOMAIN streams :
        streams[id].last_update_time > streams[id].start_time

\* C18: no lost update under reentrancy: when the transfer of a
\* top_up_stream(sender, id, a1) calls back into a nested
\* top_up_stream(sender, id, a2) before the outer call writes its record,
\* then after both have returned deposited_amount has grown by a1 + a2, the
\* tokens that entered escrow; and a nested create_stream during an outer
\* create_stream's transfer gets a different id and neither record
\* overwrites the other.  Stated once the transaction has ended: the escrow
\* of each token equals what its streams account for, and the ids in use are
\* exactly 1 .. counter.
C18_NoLostUpdate ==
    stack = <<>> =>
        /\ \A t \in Tokens :
             balances[t][ContractAddress] = C17_Owed(t, DOMAIN streams)
        /\ DOMAIN streams = 1 .. counter

\* C19: a top-up never costs the recipient accrued funds: the amount
\* claimable at now (0 if now <= last_update_time, else min(rate_per_second *
\* (now - last_update_time), deposited_amount - withdrawn_amount)) is not
\* smaller right after a successful top_up_stream at now than right before.
C19_TopUpKeepsAccrued ==
    [][(call'.op = "top_up_stream" /\ call'.result = Ok) =>
       \A sender \in Addrs, id \in StreamIds, amount \in Amounts :
        top_up_stream(sender, id, amount, TRUE)
        => Claimable(streams'[id], now) >= Claimable(streams[id], now)
      ]_vars

\* stream `id` holds a deposit
C20_Funded(id) ==
    IF id \in DOMAIN streams THEN streams[id].deposited_amount > 0 ELSE FALSE

\* stream `id` was cancelled, or its whole deposit was paid out
C20_Settled(id) ==
    IF id \in DOMAIN streams
    THEN IF streams[id].is_active
         THEN streams[id].withdrawn_amount = streams[id].deposited_amount
         ELSE TRUE
    ELSE FALSE

\* C20: eventual full payout: for every stream created with amount > 0 that
\* is never cancelled, if the clock keeps advancing and the recipient keeps
\* calling withdraw, then eventually withdrawn_amount = deposited_amount: no
\* escrowed deposit stays unclaimable forever, also when amount is not a
\* multiple of duration or amount < duration.
C20_EventualFullPayout ==
    \A id \in StreamIds : [](C20_Funded(id) => <>C20_Settled(id))

====
